---- MODULE Spec2Model ----
(***************************************************************************)
(* Federated-averaging servers of the plato repository:                    *)
(*   src/plato/servers/fedavg.py   class Server                            *)
(*   src/servers/fedavg.py         class FedAvgServer (older variant)      *)
(*   src/trainers/trainer.py       class Trainer                           *)
(*                                                                         *)
(* Numbers.  Python floats are modelled as exact rationals <<num, den>>    *)
(* with den > 0 in lowest terms, so rounding error is not part of the      *)
(* model.  A parameter tensor is modelled as a tensor with one element, so *)
(* its single singular value is the absolute value of that element.        *)
(* A state_dict / OrderedDict is a sequence of <<name, value>> pairs with  *)
(* distinct names, in insertion order.                                     *)
(***************************************************************************)
EXTENDS Integers, Sequences, FiniteSets, TLC

----------------------------------------------------------------------------
(* Exact rational arithmetic                                               *)

RECURSIVE GCD(_, _)
GCD(a, b) == IF b = 0 THEN a ELSE GCD(b, a % b)

Abs(i) == IF i < 0 THEN -i ELSE i

Norm(n, d) ==
    LET s == IF d < 0 THEN -1 ELSE 1
        g == GCD(Abs(n), Abs(d))
    IN  <<(s * n) \div g, (s * d) \div g>>

R(i) == <<i, 1>>
Q(n, d) == Norm(n, d)

RAdd(p, q) == Norm(p[1] * q[2] + q[1] * p[2], p[2] * q[2])
RSub(p, q) == Norm(p[1] * q[2] - q[1] * p[2], p[2] * q[2])
RMul(p, q) == Norm(p[1] * q[1], p[2] * q[2])
RDiv(p, q) == Norm(p[1] * q[2], p[2] * q[1])
RLt(p, q) == p[1] * q[2] < q[1] * p[2]
RLe(p, q) == p[1] * q[2] <= q[1] * p[2]
RAbs(p) == <<Abs(p[1]), p[2]>>

(* Natural numbers of any size, as little-endian sequences of base-1000    *)
(* digits: used only to compare a rational with a power of a rational.     *)
RECURSIVE BigOf(_)
BigOf(n) == IF n = 0 THEN <<>> ELSE <<n % 1000>> \o BigOf(n \div 1000)

RECURSIVE BigMulCarry(_, _, _)
BigMulCarry(x, m, carry) ==
    IF x = <<>> THEN BigOf(carry)
    ELSE LET v == Head(x) * m + carry
         IN  <<v % 1000>> \o BigMulCarry(Tail(x), m, v \div 1000)

RECURSIVE BigStrip(_)
BigStrip(x) ==
    IF x # <<>> /\ x[Len(x)] = 0 THEN BigStrip(SubSeq(x, 1, Len(x) - 1)) ELSE x

BigMul(x, m) == BigStrip(BigMulCarry(x, m, 0))

RECURSIVE BigMulPow(_, _, _)
BigMulPow(x, m, k) == IF k = 0 THEN x ELSE BigMulPow(BigMul(x, m), m, k - 1)

RECURSIVE BigLeFrom(_, _, _)
BigLeFrom(x, y, i) ==
    IF i = 0 THEN TRUE
    ELSE IF x[i] # y[i] THEN x[i] < y[i]
    ELSE BigLeFrom(x, y, i - 1)

BigLe(x, y) ==
    IF Len(x) # Len(y) THEN Len(x) < Len(y) ELSE BigLeFrom(x, y, Len(x))

(* p <= q^k and p >= q^k for rationals p, q > 0 and a natural k.           *)
RLePow(p, q, k) ==
    BigLe(BigMulPow(BigOf(p[1]), q[2], k), BigMulPow(BigOf(p[2]), q[1], k))
RGePow(p, q, k) ==
    BigLe(BigMulPow(BigOf(p[2]), q[1], k), BigMulPow(BigOf(p[1]), q[2], k))

(* The non-negative square root, exact when the rational is a square and   *)
(* kept symbolic otherwise.                                                *)
IsSquare(n) == \E r \in 0..n : r * r = n
IntRoot(n) == CHOOSE r \in 0..n : r * r = n
Sqrt(q) ==
    IF IsSquare(q[1]) /\ IsSquare(q[2])
    THEN <<IntRoot(q[1]), IntRoot(q[2])>>
    ELSE <<"sqrt", q>>

----------------------------------------------------------------------------
(* Ordered dictionaries                                                    *)

Keys(d) == {d[k][1] : k \in DOMAIN d}
HasKey(d, name) == name \in Keys(d)
Get(d, name) == d[CHOOSE k \in DOMAIN d : d[k][1] = name][2]
Put(d, name, v) ==
    IF HasKey(d, name)
    THEN [k \in DOMAIN d |-> IF d[k][1] = name THEN <<name, v>> ELSE d[k]]
    ELSE Append(d, <<name, v>>)

----------------------------------------------------------------------------
(* Bounds of the model and the inputs it draws                             *)

MaxReports == 2      \* reports collected in one round (clients per round)
MaxRounds == 2       \* Config().trainer.rounds

D2(w, b) == << <<"w", w>>, <<"b", b>> >>

PZero == D2(R(0), R(0))
PA == D2(R(1), R(1))
PB == D2(R(5), R(1))
PBig == D2(R(59), R(59))
PHuge == D2(R(61), R(59))
PRev == << <<"b", R(1)>>, <<"w", R(5)>> >>
PMissing == << <<"w", R(5)>> >>
PExtra == << <<"w", R(1)>>, <<"b", R(1)>>, <<"c", R(1)>> >>

Payloads == {PZero, PA, PB, PBig, PHuge, PRev, PMissing, PExtra}

Report(n, p, acc, pt, ct, tt) ==
    [num_samples |-> n, payload |-> p, accuracy |-> acc,
     processing_time |-> pt, comm_time |-> ct, training_time |-> tt]

(* Reports that exercise the aggregation: every payload kind, and one      *)
(* report with no samples.                                                 *)
AggPool ==
    {Report(1, p, Q(8, 10), 1, 2, 1) : p \in Payloads \ {PB, PRev}}
    \cup {Report(3, p, Q(8, 10), 1, 2, 1) : p \in {PB, PRev, PBig}}
    \cup {Report(0, PA, Q(6, 10), 2, 1, 3)}

(* Reports that exercise the metric reductions.                            *)
MetricsPool ==
    {Report(n, PZero, Q(8, 10), 1, 2, 1) : n \in {1, 2, 3}}
    \cup {Report(n, PZero, Q(6, 10), 2, 1, 3) : n \in {1, 2, 3}}
    \cup {Report(n, PZero, Q(1, 10), 3, 3, 0) : n \in {1, 2}}

(* Reports of a run without a target: all-zero weights (no valid estimate *)
(* in the round) and non-zero weights, all of one accuracy.                *)
FairPool ==
    {Report(1, PZero, Q(8, 10), 1, 2, 1), Report(2, PZero, Q(8, 10), 2, 1, 3),
     Report(1, PA, Q(8, 10), 1, 2, 1)}

(* Reports of batches that differ in their total number of samples.       *)
ReentrantPool ==
    {Report(1, PA, Q(8, 10), 1, 2, 1), Report(3, PB, Q(8, 10), 1, 2, 1),
     Report(2, PZero, Q(8, 10), 1, 2, 1)}

InitialWeights == PA

TestResults == {Q(1, 2), Q(9, 10)}

----------------------------------------------------------------------------
(* Results of a Python call: a value, or the exception it raised           *)

Ok(v) == [err |-> "none", val |-> v]
Raise(e) == [err |-> e, val |-> <<>>]

RECURSIVE SumSamples(_)
SumSamples(reports) ==
    IF reports = <<>> THEN 0
    ELSE Head(reports).num_samples + SumSamples(Tail(reports))

----------------------------------------------------------------------------
(* Trainer (src/trainers/trainer.py)                                       *)

ComputeUpdatesLenient(baseline, weights_received) ==
    Ok([i \in DOMAIN weights_received |->
           [k \in DOMAIN weights_received[i] |->
               <<weights_received[i][k][1],
                 IF HasKey(baseline, weights_received[i][k][1])
                 THEN RSub(weights_received[i][k][2],
                           Get(baseline, weights_received[i][k][1]))
                 ELSE weights_received[i][k][2]>>]])

(* compute_weight_updates: for every received weights dictionary, in its   *)
(* own name order, delta = current_weight - baseline_weights[name]; the    *)
(* lookup raises KeyError for a name the baseline does not have.           *)
compute_weight_updates(baseline, weights_received) ==
    IF \E i \in DOMAIN weights_received :
           \E k \in DOMAIN weights_received[i] :
               ~HasKey(baseline, weights_received[i][k][1])
    THEN Raise("KeyError")
    ELSE Ok([i \in DOMAIN weights_received |->
                [k \in DOMAIN weights_received[i] |->
                    <<weights_received[i][k][1],
                      RSub(weights_received[i][k][2],
                           Get(baseline, weights_received[i][k][1]))>>]])

(* load_weights: load_state_dict(weights, strict=True) raises when the     *)
(* names given are not exactly the names of the model.                     *)
load_weights(model, new_weights) ==
    IF Keys(new_weights) = Keys(model) /\ Len(new_weights) = Len(model)
    THEN Ok([k \in DOMAIN model |-> <<model[k][1], Get(new_weights, model[k][1])>>])
    ELSE Raise("RuntimeError")

----------------------------------------------------------------------------
(* Algorithm used by Server (plato.algorithms, not among the sources)      *)

(* compute_weight_deltas: delta_i = payload_i - baseline.                  *)
compute_weight_deltas(baseline, weights_received) ==
    compute_weight_updates(baseline, weights_received)

(* update_weights: updated = baseline + avg_delta, over the baseline's     *)
(* names; a name the deltas lack is an error.                              *)
update_weights(baseline, deltas) ==
    IF \E k \in DOMAIN baseline : ~HasKey(deltas, baseline[k][1])
    THEN Raise("KeyError")
    ELSE Ok([k \in DOMAIN baseline |->
                <<baseline[k][1], RAdd(baseline[k][2], Get(deltas, baseline[k][1]))>>])

----------------------------------------------------------------------------
(* Server.aggregate_deltas (src/plato/servers/fedavg.py)                   *)

(* num_samples / self.total_samples                                        *)
CoefUniform(num_samples, total) == Q(1, total)
Coef(num_samples, total) == Q(num_samples, total)

(* avg_update = {name: zeros(delta.shape) for name, delta in               *)
(*                deltas_received[0].items()}                              *)
ZerosLike(delta) == [k \in DOMAIN delta |-> <<delta[k][1], R(0)>>]

RECURSIVE AccumulateGuarded(_, _, _, _, _)
AccumulateGuarded(avg, delta, num_samples, total, k) ==
    IF k > Len(delta) THEN Ok(avg)
    ELSE LET name == delta[k][1] IN
         IF ~HasKey(avg, name) THEN Raise("KeyError")
         ELSE IF total = 0 THEN AccumulateGuarded(avg, delta, num_samples, total, k + 1)
         ELSE AccumulateGuarded(
                  Put(avg, name,
                      RAdd(Get(avg, name), RMul(delta[k][2], Q(num_samples, total)))),
                  delta, num_samples, total, k + 1)

(* The inner loop over one participant's delta, from its k-th name on:     *)
(* avg_update[name] += delta * (num_samples / self.total_samples).         *)
(* The target avg_update[name] is read first (KeyError), then the quotient *)
(* is computed (ZeroDivisionError).                                        *)
RECURSIVE AccumulateFrom(_, _, _, _, _)
AccumulateFrom(avg, delta, num_samples, total, k) ==
    IF k > Len(delta) THEN Ok(avg)
    ELSE LET name == delta[k][1] IN
         IF ~HasKey(avg, name) THEN Raise("KeyError")
         ELSE IF total = 0 THEN Raise("ZeroDivisionError")
         ELSE AccumulateFrom(
                  Put(avg, name,
                      RAdd(Get(avg, name), RMul(delta[k][2], Coef(num_samples, total)))),
                  delta, num_samples, total, k + 1)

(* The coefficients applied so far, with that of a pass that accumulated   *)
(* a delta with coefficient num_samples / total.                           *)
Applied(sofar, delta, num_samples, total) ==
    IF delta = <<>> \/ total = 0 THEN sofar
    ELSE Append(sofar, Coef(num_samples, total))

(* One pass of the outer loop, for the i-th delta (counted from 0):        *)
(* report = updates[i].report raises IndexError past the end of updates.   *)
AggregateOne(avg, reports, deltas, i, total) ==
    IF i + 1 > Len(reports) THEN Raise("IndexError")
    ELSE AccumulateFrom(avg, deltas[i + 1], reports[i + 1].num_samples, total, 1)

----------------------------------------------------------------------------
(* The convergence estimate of Server._process_reports                     *)

n == Q(4, 100)
mu == Q(3, 10)
bar_rho == 1
L == R(1)
C == Q(2, 10)
D == Q(1, 10)
A1 == 18

lambda_value ==
    RSub(R(1), RMul(RMul(n, mu), RAdd(R(1), RDiv(RMul(R(3), R(bar_rho)), R(8)))))
x == RDiv(RMul(RMul(R(4), L), RAdd(RMul(n, C), D)),
          RMul(mu, RAdd(R(8), RMul(R(3), R(bar_rho)))))
denominator == RSub(RMul(RDiv(L, mu), R(A1)), R(1))

RECURSIVE SumAbs(_)
SumAbs(w) == IF w = <<>> THEN R(0) ELSE RAdd(RAbs(Head(w)[2]), SumAbs(Tail(w)))

(* np.mean of the singular values: one per parameter, its absolute value.  *)
s_average(updated_weights) == RDiv(SumAbs(updated_weights), R(Len(updated_weights)))

(* t is -1, or the logarithm of argument in base lambda, kept symbolic.    *)
Sentinel == [kind |-> "num", value |-> -1, argument |-> R(0), base |-> R(0)]
LogOf(argument, base) ==
    [kind |-> "log", value |-> 0, argument |-> argument, base |-> base]

EstimateNoBaseCheck(num, den, lam) ==
    IF RLt(R(0), num) /\ RLt(R(0), den) /\ RLt(R(0), lam)
    THEN LogOf(RDiv(num, den), lam)
    ELSE Sentinel
EstimateT(num, den, lam) ==
    IF RLt(R(0), num) /\ RLt(R(0), den) /\ RLt(R(0), lam) /\ lam # R(1)
    THEN LogOf(RDiv(num, den), lam)
    ELSE Sentinel

(* t >= k for a natural number k: for a base below 1 the logarithm is      *)
(* decreasing, so log_base(a) >= k iff a <= base^k; above 1, a >= base^k.  *)
TGe(t, k) ==
    IF t.kind = "num" THEN t.value >= k
    ELSE IF RLt(t.base, R(1)) THEN RLePow(t.argument, t.base, k)
    ELSE RGePow(t.argument, t.base, k)

(* if t >= self.current_round: raise StopIteration                         *)
StopAlways(t, round) == TGe(t, 0)
StopOnSentinel(t, round) == t.kind = "num" \/ TGe(t, round)
ShouldStop(t, round) == TGe(t, round)

----------------------------------------------------------------------------
(* Metric reductions of Server                                             *)

RECURSIVE SumSeq(_)
SumSeq(s) == IF s = <<>> THEN R(0) ELSE RAdd(SumSeq(SubSeq(s, 1, Len(s) - 1)), s[Len(s)])

RECURSIVE MaxSeq(_)
MaxSeq(s) ==
    IF Len(s) = 1 THEN s[1]
    ELSE LET m == MaxSeq(SubSeq(s, 1, Len(s) - 1))
         IN  IF s[Len(s)] > m THEN s[Len(s)] ELSE m

(* get_accuracy_mean_std: <<mean, std>>; the division by total_samples     *)
(* raises ZeroDivisionError when the reports hold no samples.              *)
(* weights = [update.report.num_samples / total_samples for ...]           *)
AccuracyWeightUniform(reports, i, total) == Q(1, Len(reports))
AccuracyWeight(reports, i, total) == Q(reports[i].num_samples, total)

get_accuracy_mean_std(reports) ==
    LET total == SumSamples(reports) IN
    IF total = 0 /\ reports # <<>> THEN Raise("ZeroDivisionError")
    ELSE LET weights == [i \in DOMAIN reports |-> AccuracyWeight(reports, i, total)]
             mean == SumSeq([i \in DOMAIN reports |->
                         RMul(reports[i].accuracy, weights[i])])
             variance ==
                 SumSeq([i \in DOMAIN reports |->
                     RMul(RMul(RSub(reports[i].accuracy, mean),
                               RSub(reports[i].accuracy, mean)), weights[i])])
         IN  Ok(<<mean, Sqrt(variance)>>)

(* get_logged_items: the row logged for the round (the fields computed     *)
(* from the server's own state and the reports).                           *)
LoggedItemsLast(round, acc, std, reports) ==
    [round |-> round, accuracy |-> acc, accuracy_std |-> std,
     processing_time |-> reports[Len(reports)].processing_time,
     comm_time |-> MaxSeq([i \in DOMAIN reports |-> reports[i].comm_time]),
     round_time |-> MaxSeq([i \in DOMAIN reports |->
         reports[i].training_time + reports[i].processing_time + reports[i].comm_time])]
get_logged_items(round, acc, std, reports) ==
    [round |-> round, accuracy |-> acc, accuracy_std |-> std,
     processing_time |-> MaxSeq([i \in DOMAIN reports |-> reports[i].processing_time]),
     comm_time |-> MaxSeq([i \in DOMAIN reports |-> reports[i].comm_time]),
     round_time |-> MaxSeq([i \in DOMAIN reports |->
         reports[i].training_time + reports[i].processing_time + reports[i].comm_time])]

(* weights_received: the hook of Server returns its argument; a subclass   *)
(* may return another list.                                                *)
weights_received(hook, received) ==
    CASE hook = "identity" -> received
      [] hook = "drop_last" ->
            IF received = <<>> THEN received ELSE SubSeq(received, 1, Len(received) - 1)
      [] hook = "repeat_last" ->
            IF received = <<>> THEN received ELSE Append(received, received[Len(received)])

----------------------------------------------------------------------------
(* FedAvgServer (src/servers/fedavg.py)                                    *)

(* accuracy_averaging: accuracy += report.accuracy * (num_samples / total) *)
accuracy_averaging(reports) ==
    LET total == SumSamples(reports) IN
    IF total = 0 /\ reports # <<>> THEN Raise("ZeroDivisionError")
    ELSE Ok(SumSeq([i \in DOMAIN reports |->
                RMul(reports[i].accuracy, Q(reports[i].num_samples, total))]))

(* The loop over one update, by position j: avg_update[j] += delta * ...   *)
RECURSIVE LegacyAccumulateFrom(_, _, _, _, _)
LegacyAccumulateFrom(avg, update, num_samples, total, j) ==
    IF j > Len(update) THEN Ok(avg)
    ELSE IF j > Len(avg) THEN Raise("IndexError")
    ELSE IF total = 0 THEN Raise("ZeroDivisionError")
    ELSE LegacyAccumulateFrom(
             [avg EXCEPT ![j] = RAdd(@, RMul(update[j][2], Q(num_samples, total)))],
             update, num_samples, total, j + 1)

RECURSIVE LegacyAccumulateAll(_, _, _, _, _)
LegacyAccumulateAll(avg, reports, updates_, total, i) ==
    IF i > Len(updates_) THEN Ok(avg)
    ELSE LET r == LegacyAccumulateFrom(avg, updates_[i], reports[i].num_samples, total, 1)
         IN  IF r.err # "none" THEN r
             ELSE LegacyAccumulateAll(r.val, reports, updates_, total, i + 1)

(* federated_averaging.  The baseline is the trainer's state_dict, and     *)
(* "for i, (name, weight) in enumerate(baseline_weights)" iterates over    *)
(* its keys: unpacking a key into (name, weight) raises ValueError for     *)
(* every name that is not two characters long, as all names here are.      *)
federated_averaging(baseline, reports) ==
    LET u == compute_weight_updates(baseline,
                 [i \in DOMAIN reports |-> reports[i].payload])
        total == SumSamples(reports)
    IN  IF u.err # "none" THEN u
        ELSE IF reports = <<>> THEN Raise("IndexError")
        ELSE LET avg0 == [j \in DOMAIN u.val[1] |-> R(0)]
                 a == LegacyAccumulateAll(avg0, reports, u.val, total, 1)
             IN  IF a.err # "none" THEN a
                 ELSE IF baseline # <<>> THEN Raise("ValueError")
                 ELSE Ok(<<>>)

----------------------------------------------------------------------------
(* State                                                                   *)

VARIABLES
    weights,           \* the global model's state_dict
    updates,           \* self.updates / self.reports: the reports of the round
    current_round,     \* self.current_round
    total_samples,     \* self.total_samples
    accuracy,          \* self.accuracy
    accuracy_std,      \* self.accuracy_std
    pc,                \* where the round is
    idx,               \* aggregate_deltas: participants processed so far
    deltas_received,   \* aggregate_deltas: its argument
    avg_update,        \* aggregate_deltas: the accumulator
    baseline_weights,  \* _process_reports: the baseline extracted
    coefs,             \* the coefficients applied by the pass, in order
    t,                 \* _process_reports: the estimate
    outcome,           \* how report processing ended: "ok" or the exception
    events,            \* callbacks and loads of the round, in order
    logged,            \* the row handed to the log in this round, if any
    do_test,           \* Config().server.do_test
    hook,              \* which weights_received the server class has
    variant,           \* which server class runs
    target_accuracy,   \* Config().trainer.target_accuracy
    pool               \* the reports a client may send

config == <<do_test, hook, variant, target_accuracy, pool>>
locals == <<idx, deltas_received, avg_update, baseline_weights, coefs, t>>
vars == <<weights, updates, current_round, total_samples, accuracy, accuracy_std,
          pc, outcome, events, logged, locals, config>>

NoEstimate == [kind |-> "none", value |-> 0, argument |-> R(0), base |-> R(0)]

InitWith(hooks, reports, target) ==
    /\ weights = InitialWeights
    /\ updates = <<>>
    /\ current_round = 1
    /\ total_samples = 0
    /\ accuracy = R(0)
    /\ accuracy_std = R(0)
    /\ pc = "awaiting"
    /\ idx = 0
    /\ deltas_received = <<>>
    /\ avg_update = <<>>
    /\ baseline_weights = <<>>
    /\ coefs = <<>>
    /\ t = NoEstimate
    /\ outcome = "none"
    /\ events = <<>>
    /\ logged = <<>>
    /\ do_test \in BOOLEAN
    /\ hook \in hooks
    /\ variant \in {"Server", "FedAvgServer"}
    /\ target_accuracy = target
    /\ pool = reports

Init == InitWith({"identity"}, AggPool, Q(9, 10))

----------------------------------------------------------------------------
(* Actions                                                                 *)

(* A report of a selected client arrives and is appended to the updates.   *)
ReceiveReport ==
    /\ pc = "awaiting"
    /\ Len(updates) < MaxReports
    /\ \E r \in pool : updates' = Append(updates, r)
    /\ UNCHANGED <<weights, current_round, total_samples, accuracy, accuracy_std,
                   pc, outcome, events, logged, locals, config>>

(* The coordinator awaits report processing: it starts the processing of  *)
(* a batch only when none is under way.                                    *)
IdleOrSuspended(stage) == stage \in {"awaiting", "aggregating"}
Idle(stage) == stage = "awaiting"

(* Report processing ends with exception e.                                *)
Fails(e, ev) ==
    /\ pc' = "processed"
    /\ outcome' = e
    /\ events' = ev
    /\ UNCHANGED <<weights, updates, current_round, accuracy, accuracy_std, logged,
                   idx, deltas_received, avg_update, config>>

(* Server._process_reports, from its start to the first suspension of      *)
(* aggregate_deltas: the hook, the baseline, the deltas, total_samples,    *)
(* the zeroed accumulator and the first participant.                       *)
_process_reports ==
    /\ Idle(pc)
    /\ variant = "Server"
    /\ LET received == weights_received(hook,
                           [i \in DOMAIN updates |-> updates[i].payload])
           ev == Append(events, "on_weights_received")
           d == compute_weight_deltas(weights, received)
           total == SumSamples(updates)
       IN  /\ baseline_weights' = weights
           /\ IF d.err # "none"
              THEN Fails(d.err, ev) /\ UNCHANGED <<total_samples, coefs, t>>
              ELSE /\ total_samples' = total
                   /\ IF d.val = <<>>
                      THEN Fails("IndexError", ev) /\ UNCHANGED <<coefs, t>>
                      ELSE LET r == AggregateOne(ZerosLike(d.val[1]), updates,
                                                 d.val, 0, total)
                           IN  IF r.err # "none"
                               THEN Fails(r.err, ev) /\ UNCHANGED <<coefs, t>>
                               ELSE /\ pc' = "aggregating"
                                    /\ idx' = 1
                                    /\ deltas_received' = d.val
                                    /\ avg_update' = r.val
                                    /\ coefs' = Applied(<<>>, d.val[1],
                                                        updates[1].num_samples, total)
                                    /\ events' = ev
                                    /\ UNCHANGED <<weights, updates, current_round,
                                                   accuracy, accuracy_std, outcome,
                                                   logged, t, config>>

(* aggregate_deltas resumes after "await asyncio.sleep(0)" with a          *)
(* participant left: one more pass of its loop.                            *)
aggregate_deltas ==
    /\ pc = "aggregating"
    /\ idx < Len(deltas_received)
    /\ LET r == AggregateOne(avg_update, updates, deltas_received, idx, total_samples)
       IN  IF r.err # "none"
           THEN Fails(r.err, events)
                /\ UNCHANGED <<total_samples, baseline_weights, coefs, t>>
           ELSE /\ idx' = idx + 1
                /\ avg_update' = r.val
                /\ coefs' = Applied(coefs, deltas_received[idx + 1],
                                    updates[idx + 1].num_samples, total_samples)
                /\ UNCHANGED <<weights, updates, current_round, total_samples, accuracy,
                               accuracy_std, pc, deltas_received, baseline_weights, t,
                               outcome, events, logged, config>>

(* aggregate_deltas resumes with no participant left and returns; the     *)
(* rest of Server._process_reports runs: update_weights, load_weights, the *)
(* estimate, the stop test, the callbacks, the accuracy and the log row.   *)
(* outcome records the exception raised in the coroutine's body; Python    *)
(* hands a StopIteration raised there to the awaiting caller as a          *)
(* RuntimeError.                                                           *)
_process_reports_resume ==
    /\ pc = "aggregating"
    /\ idx = Len(deltas_received)
    /\ LET u == update_weights(baseline_weights, avg_update)
           ld == IF u.err = "none" THEN load_weights(weights, u.val) ELSE u
       IN  IF ld.err # "none"
           THEN Fails(ld.err, events)
                /\ UNCHANGED <<total_samples, baseline_weights, coefs, t>>
           ELSE LET numerator == RSub(s_average(u.val), x)
                    est == EstimateT(numerator, denominator, lambda_value)
                    loaded == Append(events, "load_weights")
                    ms == get_accuracy_mean_std(updates)
                IN  /\ weights' = ld.val
                    /\ t' = est
                    /\ pc' = "processed"
                    /\ UNCHANGED <<updates, current_round, total_samples, idx,
                                   deltas_received, avg_update, baseline_weights,
                                   coefs, config>>
                    /\ IF ShouldStop(est, current_round)
                       THEN /\ outcome' = "StopIteration"
                            /\ events' = loaded
                            /\ UNCHANGED <<accuracy, accuracy_std, logged>>
                       ELSE IF ~do_test /\ ms.err # "none"
                       THEN /\ outcome' = ms.err
                            /\ events' = Append(loaded, "on_weights_aggregated")
                            /\ UNCHANGED <<accuracy, accuracy_std, logged>>
                       ELSE /\ outcome' = "ok"
                            /\ events' = loaded \o <<"on_weights_aggregated",
                                   "clients_processed", "on_clients_processed">>
                            /\ IF ~do_test
                               THEN /\ accuracy' = ms.val[1]
                                    /\ accuracy_std' = ms.val[2]
                               ELSE /\ accuracy' \in TestResults
                                    /\ accuracy_std' = accuracy_std
                            /\ logged' = <<get_logged_items(current_round, accuracy',
                                                             accuracy_std', updates)>>

(* FedAvgServer.process_reports: aggregate_weights, load_weights, then the *)
(* accuracy (Config().clients.do_test is taken to be the opposite of the   *)
(* server's do_test).                                                      *)
process_reports ==
    /\ Idle(pc)
    /\ variant = "FedAvgServer"
    /\ LET payloads == [i \in DOMAIN updates |-> updates[i].payload]
           r == federated_averaging(weights, updates)
           ld == IF r.err = "none" THEN load_weights(weights, r.val) ELSE r
           av == accuracy_averaging(updates)
       IN  /\ total_samples' =
                  IF compute_weight_updates(weights, payloads).err = "none"
                  THEN SumSamples(updates) ELSE total_samples
           /\ baseline_weights' = weights
           /\ UNCHANGED <<coefs, t>>
           /\ IF ld.err # "none"
              THEN Fails(ld.err, events)
              ELSE /\ weights' = ld.val
                   /\ pc' = "processed"
                   /\ events' = Append(events, "load_weights")
                   /\ IF ~do_test /\ av.err # "none"
                      THEN outcome' = av.err /\ accuracy' = accuracy
                      ELSE /\ outcome' = "ok"
                           /\ IF ~do_test THEN accuracy' = av.val
                                          ELSE accuracy' \in TestResults
                   /\ UNCHANGED <<updates, current_round, accuracy_std, logged, idx,
                                  deltas_received, avg_update, config>>

(* No target accuracy is configured: configure() reads a target of None or *)
(* 0 as absent ("if target_accuracy:").                                    *)
NoTarget == R(0)

(* The configured target accuracy is reached.                              *)
TargetReached(target, acc) == target # NoTarget /\ RLe(target, acc)

(* The round number of the round after a completed round.                  *)
RoundStays(round) == round
NextRound(round) == round + 1

(* The round boundary: report processing has ended.  An exception ends the *)
(* run; otherwise the run ends after the last round or once the target     *)
(* accuracy is reached, and else the next round starts.                    *)
Deciding ==
    /\ pc = "processed"
    /\ IF \/ outcome # "ok"
          \/ current_round >= MaxRounds
          \/ TargetReached(target_accuracy, accuracy)
       THEN /\ pc' = "terminated"
            /\ UNCHANGED <<weights, updates, current_round, total_samples, accuracy,
                           accuracy_std, outcome, events, logged, locals, config>>
       ELSE /\ pc' = "awaiting"
            /\ current_round' = NextRound(current_round)
            /\ updates' = <<>>
            /\ outcome' = "none"
            /\ events' = <<>>
            /\ logged' = <<>>
            /\ baseline_weights' = <<>>
            /\ coefs' = <<>>
            /\ t' = NoEstimate
            /\ idx' = 0
            /\ deltas_received' = <<>>
            /\ avg_update' = <<>>
            /\ UNCHANGED <<weights, total_samples, accuracy, accuracy_std, config>>

Next ==
    \/ ReceiveReport
    \/ _process_reports
    \/ aggregate_deltas
    \/ _process_reports_resume
    \/ process_reports
    \/ Deciding

Spec == Init /\ [][Next]_vars

(* The metric reductions, on reports that differ in accuracy and timings.  *)
InitMetrics == InitWith({"identity"}, MetricsPool, Q(1, 2))
SpecMetrics == InitMetrics /\ [][Next]_vars

(* A server class that overrides the weights_received hook.                *)
InitHook == InitWith({"identity", "drop_last", "repeat_last"}, AggPool, Q(9, 10))
SpecHook == InitHook /\ [][Next]_vars

(* A run with no target accuracy configured.  The coordinator is a single  *)
(* event loop that runs every task that is ready, and the transport        *)
(* delivers the reports: a stage of the round that can be left is not      *)
(* stayed in forever.                                                      *)
InitNoTarget == InitWith({"identity"}, FairPool, NoTarget)
Stages == {"awaiting", "aggregating", "processed", "terminated"}
Leaves(stage) == pc = stage /\ pc' \in Stages \ {stage}
Fairness == \A stage \in Stages \ {"terminated"} : WF_pc(Leaves(stage))
SpecFair == InitNoTarget /\ [][Next]_vars /\ Fairness

(* Another call of aggregate_deltas on the same server, made with a batch  *)
(* of its own by a task that runs while the first pass is suspended at     *)
(* "await asyncio.sleep(0)": its first statement assigns                   *)
(* self.total_samples; its accumulator is a local of that call.            *)
(* It runs between two iterations of the first pass, with a batch of one   *)
(* report.                                                                 *)
OtherBatches(reports) == {<<r>> : r \in reports}

other_aggregate_deltas ==
    /\ pc = "aggregating"
    /\ idx < Len(deltas_received)
    /\ \E batch \in OtherBatches(pool) :
           /\ SumSamples(batch) # SumSamples(updates)
           /\ total_samples' = SumSamples(batch)
    /\ total_samples' # total_samples
    /\ UNCHANGED <<weights, updates, current_round, accuracy, accuracy_std, pc,
                   outcome, events, logged, locals, config>>

NextReentrant == Next \/ other_aggregate_deltas

InitReentrant == InitWith({"identity"}, ReentrantPool, Q(9, 10))
SpecReentrant == InitReentrant /\ [][NextReentrant]_vars

----------------------------------------------------------------------------
(* Properties                                                              *)

Ended == pc \in {"processed", "terminated"}
Payload(i) == updates[i].payload
SameNames(d, e) == Keys(d) = Keys(e) /\ Len(d) = Len(e)

(* baseline[name] + (sum_i (payload_i[name] - baseline[name]) * n_i) / N   *)
ExpectedDelta(baseline, reports, name) ==
    RDiv(SumSeq([i \in DOMAIN reports |->
             RMul(RSub(Get(reports[i].payload, name), Get(baseline, name)),
                  R(reports[i].num_samples))]),
         R(SumSamples(reports)))
ExpectedUpdated(baseline, reports) ==
    [k \in DOMAIN baseline |->
        <<baseline[k][1],
          RAdd(baseline[k][2], ExpectedDelta(baseline, reports, baseline[k][1]))>>]

(* C1: in delta mode, for a non-empty batch with total_samples > 0 whose   *)
(* payloads have the baseline's parameter names, report processing reaches *)
(* load_weights and the weights loaded are, for every name,                *)
(* baseline + sum_i (payload_i - baseline) * num_samples_i / total_samples; *)
(* the accumulator returned is that weighted sum of deltas.                *)
C1_DeltaAggregation ==
    (/\ variant = "Server"
     /\ Ended
     /\ updates # <<>>
     /\ SumSamples(updates) > 0
     /\ \A i \in DOMAIN updates : SameNames(Payload(i), baseline_weights))
    => /\ outcome \in {"ok", "StopIteration"}
       /\ <<"on_weights_received", "load_weights">> = SubSeq(events, 1, 2)
       /\ weights = ExpectedUpdated(baseline_weights, updates)
       /\ \A k \in DOMAIN baseline_weights :
              Get(avg_update, baseline_weights[k][1])
                  = ExpectedDelta(baseline_weights, updates, baseline_weights[k][1])

(* The scenario of C1: baseline w = 1, b = 1 (the two elements of the      *)
(* scenario's tensor), samples (1, 3), deltas (0, 0) and (4, 0).           *)
C1_Witness ==
    /\ variant = "Server"
    /\ Ended
    /\ baseline_weights = D2(R(1), R(1))
    /\ Len(updates) = 2
    /\ updates[1].num_samples = 1 /\ updates[1].payload = PA
    /\ updates[2].num_samples = 3 /\ updates[2].payload = PB
    /\ avg_update = D2(R(3), R(0))
    /\ weights = D2(R(4), R(1))

(* The aggregation pass ran over every delta it was given and returned.    *)
PassReturned ==
    /\ variant = "Server"
    /\ Ended
    /\ deltas_received # <<>>
    /\ idx = Len(deltas_received)

(* C2: in every aggregation pass that returns, the coefficients            *)
(* num_samples_i / total_samples applied to the deltas sum to 1, whatever  *)
(* list the weights_received hook returned.                                *)
C2_CoefficientsSumToOne == PassReturned => SumSeq(coefs) = R(1)

NamesOf(d) == [k \in DOMAIN d |-> d[k][1]]

(* C3: in every state the global model has the parameter names it had      *)
(* before round 1, in the same order; the accumulator of a pass never      *)
(* holds a name the model lacks, and when the weights are loaded it holds  *)
(* every name of the model.                                                *)
C3_SchemaPreserved ==
    /\ NamesOf(weights) = NamesOf(InitialWeights)
    /\ Keys(avg_update) \subseteq Keys(weights)
    /\ (variant = "Server" /\ Len(events) >= 2 /\ events[2] = "load_weights")
           => Keys(avg_update) = Keys(weights)

(* A second round has loaded weights, from an accumulator whose first      *)
(* delta listed the names in another order than the model.                 *)
C3_Witness ==
    /\ variant = "Server"
    /\ current_round = 2
    /\ Ended
    /\ Len(events) >= 2 /\ events[2] = "load_weights"
    /\ NamesOf(avg_update) # NamesOf(weights)
    /\ weights # InitialWeights

Matching(reports, baseline) ==
    SelectSeq(reports, LAMBDA r : SameNames(r.payload, baseline))

(* C4: a report whose payload's names disagree with the baseline is left   *)
(* out and the remaining reports are averaged as if it had never been      *)
(* there; the round fails only if the remaining reports hold no samples.   *)
C4_MismatchExcluded ==
    (/\ variant = "Server"
     /\ Ended
     /\ \E i \in DOMAIN updates : ~SameNames(Payload(i), baseline_weights))
    => LET kept == Matching(updates, baseline_weights) IN
       IF SumSamples(kept) = 0
       THEN outcome \notin {"ok", "StopIteration"}
       ELSE /\ outcome \in {"ok", "StopIteration"}
            /\ weights = ExpectedUpdated(baseline_weights, kept)

(* C5: when the batch is empty, or holds no samples, report processing     *)
(* ends with an exception, load_weights is not called in the round and the *)
(* global weights are those the round started with.                        *)
C5_EmptyOrZeroFails ==
    (Ended /\ (updates = <<>> \/ SumSamples(updates) = 0))
    => /\ outcome \notin {"ok", "StopIteration", "none"}
       /\ \A k \in DOMAIN events : events[k] # "load_weights"
       /\ weights = baseline_weights

(* A batch of one report with no samples has failed in the name-keyed      *)
(* server with ZeroDivisionError.                                          *)
C5_Witness ==
    /\ variant = "Server"
    /\ Ended
    /\ Len(updates) = 1
    /\ updates[1].num_samples = 0
    /\ outcome = "ZeroDivisionError"
    /\ weights = baseline_weights

(* sum_i acc_i * n_i / N and sum_i (acc_i - mean)^2 * n_i / N, with one    *)
(* division at the end.                                                    *)
MeanOf(reports) ==
    RDiv(SumSeq([i \in DOMAIN reports |->
             RMul(reports[i].accuracy, R(reports[i].num_samples))]),
         R(SumSamples(reports)))
VarianceOf(reports) ==
    RDiv(SumSeq([i \in DOMAIN reports |->
             RMul(RMul(RSub(reports[i].accuracy, MeanOf(reports)),
                       RSub(reports[i].accuracy, MeanOf(reports))),
                  R(reports[i].num_samples))]),
         R(SumSamples(reports)))

ClientAccuracyRound ==
    variant = "Server" /\ Ended /\ outcome = "ok" /\ ~do_test

(* C6: when a round takes its accuracy from the client reports, the        *)
(* accuracy stored is sum acc_i * n_i / N and the deviation stored is      *)
(* sqrt(sum (acc_i - mean)^2 * n_i / N); if all reports carry the same     *)
(* accuracy a, these are a and 0; accuracy_averaging of the older server   *)
(* yields the same mean.                                                   *)
C6_WeightedMeanStd ==
    ClientAccuracyRound
    => /\ accuracy = MeanOf(updates)
       /\ accuracy_std = Sqrt(VarianceOf(updates))
       /\ (\A i \in DOMAIN updates : updates[i].accuracy = updates[1].accuracy)
              => (accuracy = updates[1].accuracy /\ accuracy_std = R(0))
       /\ accuracy_averaging(updates) = Ok(MeanOf(updates))

(* The scenario of C6: samples (2, 2), accuracies (0.8, 0.6).              *)
C6_Witness ==
    /\ ClientAccuracyRound
    /\ Len(updates) = 2
    /\ updates[1].num_samples = 2 /\ updates[1].accuracy = Q(8, 10)
    /\ updates[2].num_samples = 2 /\ updates[2].accuracy = Q(6, 10)
    /\ accuracy = Q(7, 10)
    /\ VarianceOf(updates) = Q(1, 100)
    /\ accuracy_std = Q(1, 10)

Permuted(reports, perm) == [i \in DOMAIN reports |-> reports[perm[i]]]

(* C7: the row logged for a round, and the accuracy mean and deviation of  *)
(* its reports, are the same for every order of arrival of the reports.    *)
C7_OrderIndependent ==
    (variant = "Server" /\ Ended /\ outcome = "ok")
    => \A perm \in Permutations(DOMAIN updates) :
           /\ logged = <<get_logged_items(current_round, accuracy, accuracy_std,
                                          Permuted(updates, perm))>>
           /\ ~do_test => get_accuracy_mean_std(Permuted(updates, perm))
                              = Ok(<<accuracy, accuracy_std>>)

(* A summarised round of two reports that differ in samples, accuracy and  *)
(* every timing, the slower one first.                                     *)
C7_Witness ==
    /\ ClientAccuracyRound
    /\ Len(updates) = 2
    /\ updates[1].num_samples # updates[2].num_samples
    /\ updates[1].accuracy # updates[2].accuracy
    /\ updates[1].processing_time > updates[2].processing_time
    /\ logged # <<>>
    /\ logged[1].processing_time = updates[1].processing_time

SmallRationals == {Q(-1, 1), R(0), Q(1, 2), R(1), R(2)}

InvalidInputs(num, den, lam) ==
    RLe(num, R(0)) \/ RLe(den, R(0)) \/ RLe(lam, R(0)) \/ lam = R(1)

Estimated == variant = "Server" /\ Ended /\ t.kind # "none"

(* C8: whenever numerator <= 0, or denominator <= 0, or lambda <= 0, or    *)
(* lambda = 1, the estimate is exactly -1 and no round number >= 1 is      *)
(* stopped by it (evaluated, for all small inputs, on the estimator each   *)
(* round starts with); a round whose estimate has such inputs ends         *)
(* normally, with t = -1.                                                  *)
C8_Sentinel ==
    /\ (pc = "awaiting" /\ updates = <<>>)
           => \A num \in SmallRationals, den \in SmallRationals, lam \in SmallRationals :
                  InvalidInputs(num, den, lam)
                  => /\ EstimateT(num, den, lam) = Sentinel
                     /\ \A r \in 1..MaxRounds : ~ShouldStop(EstimateT(num, den, lam), r)
    /\ current_round >= 1
    /\ (Estimated /\ InvalidInputs(RSub(s_average(weights), x), denominator, lambda_value))
           => (t = Sentinel /\ outcome = "ok")

(* A round whose aggregated weights are all zero: numerator <= 0.          *)
C8_Witness ==
    /\ Estimated
    /\ RLe(RSub(s_average(weights), x), R(0))
    /\ t = Sentinel
    /\ outcome = "ok"

(* C9: StopIteration is raised in a round exactly when t >= 0 and          *)
(* t >= current_round.                                                     *)
C9_StopExactly ==
    Estimated
    => /\ outcome \in {"ok", "StopIteration"}
       /\ (outcome = "StopIteration") <=> (TGe(t, 0) /\ TGe(t, current_round))

(* A round with a non-negative estimate below the round number: no stop.   *)
C9_Witness ==
    /\ Estimated
    /\ t.kind = "log"
    /\ TGe(t, 0)
    /\ ~TGe(t, current_round)
    /\ outcome = "ok"

(* C10: in every round whose aggregation loaded new weights, also one that *)
(* the estimate stops, on_weights_aggregated fires, clients_processed runs *)
(* and the round's row is logged before the run ends.                      *)
C10_StopOnlyAtDeciding ==
    (/\ variant = "Server"
     /\ pc = "terminated"
     /\ \E k \in DOMAIN events : events[k] = "load_weights")
    => /\ \E k \in DOMAIN events : events[k] = "on_weights_aggregated"
       /\ \E k \in DOMAIN events : events[k] = "clients_processed"
       /\ logged # <<>>
       /\ logged[1].round = current_round

(* What the caller awaiting the coroutine _process_reports receives when   *)
(* exception e is raised in its body: a StopIteration raised inside an     *)
(* "async def" is replaced by a RuntimeError, every other exception        *)
(* propagates as it is.                                                    *)
Surfaced(e) == IF e = "StopIteration" THEN "RuntimeError" ELSE e

(* The exceptions that report processing raises when a round fails: the   *)
(* lookups (KeyError), deltas_received[0] of an empty batch (IndexError),  *)
(* the division by total_samples (ZeroDivisionError), the unpacking of a   *)
(* name (ValueError) and load_state_dict (RuntimeError).                   *)
RoundErrors ==
    {"KeyError", "IndexError", "ZeroDivisionError", "ValueError", "RuntimeError"}

(* C11: a round that the estimate stops ends the run in a state that is    *)
(* not the error state of a failed round: report processing hands its      *)
(* caller none of the exceptions that a failed round hands to it.          *)
C11_StopIsNotAnError ==
    (pc = "terminated" /\ Estimated /\ ShouldStop(t, current_round))
    => Surfaced(outcome) \notin RoundErrors

(* C12: with no target accuracy configured, every fair run reaches         *)
(* "terminated", also when the estimate is the sentinel in every round;    *)
(* the round number starts at 1, never exceeds the configured number of    *)
(* rounds, and changes only at the end of a completed round, by exactly    *)
(* one.                                                                    *)
C12_Terminates ==
    /\ current_round = 1
    /\ <>(pc = "terminated")
    /\ [](current_round \in 1..MaxRounds)
    /\ [][/\ pc = "processed"
          /\ outcome = "ok"
          /\ current_round' = current_round + 1]_current_round

(* A run without a target that ended after the last configured round, the *)
(* estimate of that round being the sentinel.                              *)
C12_Witness ==
    /\ pc = "terminated"
    /\ target_accuracy = NoTarget
    /\ current_round = MaxRounds
    /\ variant = "Server"
    /\ t = Sentinel
    /\ outcome = "ok"

(* The fields of the server object.                                        *)
fields == <<weights, current_round, total_samples, accuracy, accuracy_std>>

(* A step of an aggregation pass: aggregate_deltas from its call to its    *)
(* first suspension, aggregate_deltas between two suspensions, and a       *)
(* federated_averaging that returns no weights to load.                    *)
AggregationStep ==
    \/ pc = "awaiting" /\ pc' = "aggregating"
    \/ pc = "aggregating" /\ pc' = "aggregating"
    \/ variant = "FedAvgServer" /\ pc = "awaiting" /\ pc' = "processed"
           /\ events' = events

(* C13: a step of an aggregation pass changes no field of the server and   *)
(* leaves the baseline it was given as it is.                              *)
C13_NoSideEffect ==
    [][AggregationStep => (UNCHANGED fields /\ baseline_weights' = weights)]_vars

Count(seq, e) == Cardinality({k \in DOMAIN seq : seq[k] = e})

C15_OwnBatchTotal ==
    (variant = "Server" /\ deltas_received # <<>>)
    => /\ \A i \in DOMAIN coefs :
              coefs[i] = Q(updates[i].num_samples, SumSamples(updates))
       /\ (Ended /\ idx = Len(deltas_received) /\ outcome \in {"ok", "StopIteration"})
              => /\ SumSeq(coefs) = R(1)
                 /\ (\A i \in DOMAIN updates : SameNames(Payload(i), baseline_weights))
                        => \A k \in DOMAIN baseline_weights :
                               Get(avg_update, baseline_weights[k][1])
                                   = ExpectedDelta(baseline_weights, updates,
                                                   baseline_weights[k][1])

(* C16: for every batch that Server aggregates and loads, the legacy       *)
(* FedAvgServer.federated_averaging, given the same baseline and the same  *)
(* reports in the same order, returns the same value for every parameter   *)
(* name, also when a payload lists its names in another order.             *)
C16_SameUpdate ==
    (/\ variant = "Server"
     /\ Ended
     /\ \E k \in DOMAIN events : events[k] = "load_weights")
    => LET legacy == federated_averaging(baseline_weights, updates)
       IN  /\ legacy.err = "none"
           /\ Keys(legacy.val) = Keys(weights)
           /\ \A k \in DOMAIN weights :
                  Get(legacy.val, weights[k][1]) = weights[k][2]

====
